---- MODULE Spec2Model ----
(***************************************************************************)
(* Model of cytogan: the adversarial training step of DCGAN / WGAN          *)
(* (cytogan/models/dcgan.py, cytogan/models/wgan.py) and the squared-error  *)
(* losses (cytogan/metrics/losses.py).                                      *)
(*                                                                          *)
(* Tensors of the training step are abstracted to what the control flow     *)
(* reads: their shape and where they come from (which noise draw, which     *)
(* generator weights, which session.run).  Weights are version counters: a  *)
(* weight group's counter is the number of optimizer updates applied to it. *)
(* The loss tensors of losses.py are concrete: shape plus row-major data.   *)
(***************************************************************************)
EXTENDS Integers, Sequences, FiniteSets, TLC

\* ------------------------------------------------------------------ bounds
MaxCalls == 10      \* train_on_batch calls made on one model instance
MaxBatch == 2       \* len(real_images)
MaxElems == 4       \* elements of a tensor handed to the losses

\* hyper.image_shape / the per-example shape of a batch handed in by the caller
ImageShapes == { <<2, 2, 1>>, <<2, 2, 3>> }
\* hyper.noise_size
NoiseSizes == { 2 }
\* outcomes of np.random.uniform(low=0.8, high=1.0), in tenths; numpy may
\* return the high limit through rounding
UniformDraws == { 8, 9, 10 }
Classes == { "DCGAN", "WGAN" }

VARIABLES
    cls,            \* the class the model instance was constructed as
    hyper,          \* Hyper fields copied onto self
    graph,          \* what _define_graph built: D_final activation, loss['D'], loss['G']
    weights,        \* weights[k]: updates applied to the trainable weights of network k
    global_step,    \* self.global_step
    pc,             \* position inside train_on_batch
    calls,          \* calls of train_on_batch started so far
    completed,      \* calls of train_on_batch that returned
    entry,          \* weights and global_step when the current call started
    real_images,    \* train_on_batch: real_images
    with_summary,   \* train_on_batch: with_summary
    draws,          \* _sample_noise invocations made by the current call
    noise,          \* train_on_batch: noise
    fake_images,    \* train_on_batch: fake_images
    all_images,     \* train_on_batch: all_images
    d_loss,         \* train_on_batch: d_loss
    g_noise,        \* _train_generator: noise
    g_tensors,      \* train_on_batch: g_tensors
    ret,            \* what the call returned: <<>> nothing, <<losses>> or <<losses, summary>>
    runs,           \* session.run invocations of the current call, in order
    phases,         \* steps the current call has taken, in order
    p, q,           \* losses.py: the two tensors handed to a loss
    lpc,            \* losses.py: which losses have been evaluated
    se,             \* squared_error results on (p,q), (q,p), (p,p)
    rl              \* reconstruction_loss results on (p,q), (p,p)

trainVars == << cls, hyper, graph, weights, global_step, pc, calls, completed,
                entry, real_images, with_summary, draws, noise, fake_images,
                all_images, d_loss, g_noise, g_tensors, ret, runs, phases >>
lossVars == << p, q, lpc, se, rl >>
vars == << trainVars, lossVars >>

Nets == { "D", "G" }
NoTensor == [shape |-> <<>>]

\* ------------------------------------------------- wgan.py (the overrides)
\* WGAN._define_final_discriminator_layer: Dense(1) with no activation
WGAN_define_final_discriminator_layer == "linear"
\* WGAN._define_discriminator_loss: mean(generated) - mean(real) + gradient penalty
WGAN_define_discriminator_loss == "wasserstein_gradient_penalty"
\* WGAN._define_generator_loss: -mean(logits)
WGAN_define_generator_loss == "negative_mean"

\* ------------------------------------------- dcgan.py: graph construction
\* DCGAN._define_graph, run by the constructor of either class (WGAN.__init__
\* only calls DCGAN.__init__; WGAN does not override _define_graph).  The
\* final layer and both losses are built inline: none of the three methods
\* WGAN defines is called.
_define_graph(class) ==
    [ D_final |-> "sigmoid",
      loss    |-> [ D |-> "binary_crossentropy", G |-> "binary_crossentropy" ] ]

\* The activation of the D_final layer on a pre-activation score z, in
\* hundredths.  sigmoid is the logistic function rounded to two decimals.
Scores == -2 .. 2
Activation(name, z) ==
    IF name = "sigmoid"
    THEN CASE z = -2 -> 12 [] z = -1 -> 27 [] z = 0 -> 50 [] z = 1 -> 73 [] z = 2 -> 88
    ELSE 100 * z

\* DCGAN._add_optimizer: the two update operations.  var_list is the set of
\* networks whose trainable weights minimize() may change; only the G
\* optimizer is handed global_step.
_add_optimizer_D_counts_step ==
    [ D |-> [ loss |-> "D", var_list |-> {"D"}, global_step |-> TRUE ],
      G |-> [ loss |-> "G", var_list |-> {"G"}, global_step |-> TRUE ] ]
_add_optimizer_all_weights ==
    [ D |-> [ loss |-> "D", var_list |-> {"D", "G"}, global_step |-> FALSE ],
      G |-> [ loss |-> "G", var_list |-> {"D", "G"}, global_step |-> TRUE ] ]
_add_optimizer ==
    [ D |-> [ loss |-> "D", var_list |-> {"D"}, global_step |-> FALSE ],
      G |-> [ loss |-> "G", var_list |-> {"G"}, global_step |-> TRUE ] ]

\* ------------------------------------------------- dcgan.py: the helpers
Zeros(n) == [ i \in 1 .. n |-> 0 ]

\* _smooth_labels: the label vectors it can return
_smooth_labels_reals_first(fake, real) ==
    { r \o Zeros(fake.shape[1]) : r \in [ 1 .. real.shape[1] -> UniformDraws ] }
_smooth_labels(fake, real) ==
    { Zeros(fake.shape[1]) \o r : r \in [ 1 .. real.shape[1] -> UniformDraws ] }

\* DCGAN._sample_noise, as the k-th draw of the call; made after `after`
\* session.run invocations of the call
_sample_noise_cached(size, k, after) ==
    [ shape |-> << size, hyper.noise_size >>, draw |-> 1, after |-> 0 ]
_sample_noise(size, k, after) ==
    [ shape |-> << size, hyper.noise_size >>, draw |-> k, after |-> after ]

\* self.generator.predict(noise): one image of hyper.image_shape per noise
\* row, from the generator's current weights
generator_predict(z) ==
    [ shape |-> << z.shape[1] >> \o hyper.image_shape,
      z |-> z.draw, w |-> weights.G ]

\* np.concatenate([fake, real], axis=0) followed by += np.random.normal(0, 0.1)
concatenate_noisy(fake, real) ==
    [ shape |-> << fake.shape[1] + real.shape[1] >> \o Tail(fake.shape),
      fake |-> fake, real |-> real, input_noise |-> TRUE ]

\* The assertion of train_on_batch, lines 95-96
shapes_match_unchecked(fake, real) == TRUE
shapes_match(fake, real) == Tail(fake.shape) = Tail(real.shape)

\* session.run(fetches, feed_dict): its effect on the variables of the graph
ApplyOptimizer(op, w) ==
    [ k \in Nets |-> IF k \in _add_optimizer[op].var_list THEN w[k] + 1 ELSE w[k] ]
StepAfter(op, gs) == IF _add_optimizer[op].global_step THEN gs + 1 ELSE gs
\* ... and the value it returns for one fetch: None for an update operation
Fetched(f) ==
    [ fetch |-> f,
      value |-> IF f \in { "optimizer.D", "optimizer.G" } THEN "None" ELSE "value",
      call |-> calls, run |-> Len(runs) + 1 ]
SessionResults(fetches) == [ i \in 1 .. Len(fetches) |-> Fetched(fetches[i]) ]
RunRecord(op, fetches, feed) ==
    [ op |-> op, fetches |-> fetches, feed |-> feed, call |-> calls,
      loss |-> graph.loss[_add_optimizer[op].loss] ]

\* the update operation _train_discriminator fetches (line 168)
discriminator_update_generator == "G"
discriminator_update == "D"

\* what _train_generator returns of the fetched results (line 189)
generator_results_all(results) == results
generator_results(results) == Tail(results)

\* ------------------------------------------------------- the training step
Phase(name) == phases' = Append(phases, [ phase |-> name, call |-> calls ])

InitLossIdle ==
    /\ p = NoTensor /\ q = NoTensor /\ lpc = "off"
    /\ se = << >> /\ rl = << >>

InitTrain ==
    /\ cls \in Classes
    /\ hyper \in [ image_shape : ImageShapes, noise_size : NoiseSizes ]
    /\ graph = _define_graph(cls)
    /\ weights = [ k \in Nets |-> 0 ]
    /\ global_step = 0
    /\ pc = "idle"
    /\ calls = 0 /\ completed = 0
    /\ entry = [ weights |-> weights, global_step |-> global_step ]
    /\ real_images = NoTensor /\ with_summary = FALSE
    /\ draws = 0
    /\ noise = NoTensor /\ fake_images = NoTensor /\ all_images = NoTensor
    /\ d_loss = << >> /\ g_noise = NoTensor /\ g_tensors = << >>
    /\ ret = << >> /\ runs = << >> /\ phases = << >>

Init == InitTrain /\ InitLossIdle

\* train_on_batch is entered (lines 90-92): the caller's images are rescaled
\* to [-1, 1] into a new array; every local of the previous call is gone
Call(n, shape, summary) ==
    /\ pc \in { "idle", "returned", "failed" }
    /\ calls < MaxCalls
    /\ calls' = calls + 1
    /\ entry' = [ weights |-> weights, global_step |-> global_step ]
    /\ real_images' = [ shape |-> << n >> \o shape, scale |-> "[-1,1]" ]
    /\ with_summary' = summary
    /\ draws' = 0
    /\ noise' = NoTensor /\ fake_images' = NoTensor /\ all_images' = NoTensor
    /\ d_loss' = << >> /\ g_noise' = NoTensor /\ g_tensors' = << >>
    /\ ret' = << >> /\ runs' = << >> /\ phases' = << >>
    /\ pc' = "sample_noise"
    /\ UNCHANGED << cls, hyper, graph, weights, global_step, completed, lossVars >>

\* line 93
SampleNoise ==
    /\ pc = "sample_noise"
    /\ noise' = _sample_noise(real_images.shape[1], draws + 1, Len(runs))
    /\ draws' = draws + 1
    /\ Phase("sample-noise")
    /\ pc' = "generate"
    /\ UNCHANGED << cls, hyper, graph, weights, global_step, calls, completed,
                    entry, real_images, with_summary, fake_images, all_images,
                    d_loss, g_noise, g_tensors, ret, runs, lossVars >>

\* lines 94-96: predict, then the shape assertion; a failed assertion leaves
\* train_on_batch with an AssertionError
GenerateFakes ==
    /\ pc = "generate"
    /\ fake_images' = generator_predict(noise)
    /\ Phase("generate-fakes")
    /\ pc' = IF shapes_match(fake_images', real_images) THEN "assemble" ELSE "failed"
    /\ UNCHANGED << cls, hyper, graph, weights, global_step, calls, completed,
                    entry, real_images, with_summary, draws, noise, all_images,
                    d_loss, g_noise, g_tensors, ret, runs, lossVars >>

\* lines 97-98
AssembleBatch ==
    /\ pc = "assemble"
    /\ all_images' = concatenate_noisy(fake_images, real_images)
    /\ Phase("assemble-batch")
    /\ pc' = "train_discriminator"
    /\ UNCHANGED << cls, hyper, graph, weights, global_step, calls, completed,
                    entry, real_images, with_summary, draws, noise, fake_images,
                    d_loss, g_noise, g_tensors, ret, runs, lossVars >>

\* line 100, _train_discriminator (lines 158-175)
TrainDiscriminator ==
    /\ pc = "train_discriminator"
    /\ \E labels \in _smooth_labels(fake_images, real_images) :
         IF Len(labels) = 2 * real_images.shape[1]
         THEN LET images  == concatenate_noisy(fake_images, real_images)
                  op      == discriminator_update
                  fetches == << "optimizer." \o op, "loss.D" >>
                  feed    == [ images |-> images, labels |-> labels,
                               learning_phase |-> 1 ]
                  results == SessionResults(fetches)
              IN  /\ weights' = ApplyOptimizer(op, weights)
                  /\ global_step' = StepAfter(op, global_step)
                  /\ runs' = Append(runs, RunRecord(op, fetches, feed))
                  /\ d_loss' = << results[2] >>
                  /\ Phase("update-discriminator")
                  /\ pc' = "sample_noise_again"
         ELSE /\ pc' = "failed"
              /\ UNCHANGED << weights, global_step, runs, d_loss, phases >>
    /\ UNCHANGED << cls, hyper, graph, calls, completed, entry, real_images,
                    with_summary, draws, noise, fake_images, all_images,
                    g_noise, g_tensors, ret, lossVars >>

\* line 101, _train_generator: line 178
SampleNoiseAgain ==
    /\ pc = "sample_noise_again"
    /\ g_noise' = _sample_noise(real_images.shape[1], draws + 1, Len(runs))
    /\ draws' = draws + 1
    /\ Phase("sample-noise-again")
    /\ pc' = "train_generator"
    /\ UNCHANGED << cls, hyper, graph, weights, global_step, calls, completed,
                    entry, real_images, with_summary, noise, fake_images,
                    all_images, d_loss, g_tensors, ret, runs, lossVars >>

\* _train_generator: lines 179-189
UpdateGenerator ==
    /\ pc = "train_generator"
    /\ LET op      == "G"
           fetches == << "optimizer.G", "loss.G" >>
                        \o (IF with_summary THEN << "summary" >> ELSE << >>)
           feed    == [ noise |-> g_noise, learning_phase |-> 0 ]
           results == SessionResults(fetches)
       IN  /\ weights' = ApplyOptimizer(op, weights)
           /\ global_step' = StepAfter(op, global_step)
           /\ runs' = Append(runs, RunRecord(op, fetches, feed))
           /\ g_tensors' = generator_results(results)
    /\ Phase("update-generator")
    /\ pc' = "report"
    /\ UNCHANGED << cls, hyper, graph, calls, completed, entry, real_images,
                    with_summary, draws, noise, fake_images, all_images,
                    d_loss, g_noise, ret, lossVars >>

\* lines 103-104.  The returned value is modelled as a tuple: <<losses>> for
\* the bare dict, <<losses, summary>> for the pair
Report ==
    /\ pc = "report"
    /\ LET losses == [ D |-> d_loss[1], G |-> g_tensors[1] ]
       IN  ret' = IF with_summary THEN << losses, g_tensors[2] >> ELSE << losses >>
    /\ completed' = completed + 1
    /\ Phase("report")
    /\ pc' = "returned"
    /\ UNCHANGED << cls, hyper, graph, weights, global_step, calls, entry,
                    real_images, with_summary, draws, noise, fake_images,
                    all_images, d_loss, g_noise, g_tensors, runs, lossVars >>

Next ==
    \/ \E n \in 1 .. MaxBatch, shape \in ImageShapes, summary \in BOOLEAN :
         Call(n, shape, summary)
    \/ SampleNoise
    \/ GenerateFakes
    \/ AssembleBatch
    \/ TrainDiscriminator
    \/ SampleNoiseAgain
    \/ UpdateGenerator
    \/ Report

Spec == Init /\ [][Next]_vars

\* ------------------------------------------------------------- losses.py
\* A tensor is its shape and its elements in row-major order.
\* image values: the two ends of the internal [-1, 1] range
PixelVals == { -1, 1 }
Ranks == { 2, 4 }

RECURSIVE Prod(_)
Prod(s) == IF s = << >> THEN 1 ELSE Head(s) * Prod(Tail(s))

RECURSIVE SumTo(_, _)
SumTo(f, n) == IF n = 0 THEN 0 ELSE f[n] + SumTo(f, n - 1)

LossShapes ==
    { s \in UNION { [ 1 .. r -> 1 .. MaxElems ] : r \in Ranks } : Prod(s) <= MaxElems }
Tensors(s) == [ shape : { s }, data : [ 1 .. Prod(s) -> PixelVals ] ]

\* p - q on tensors of one shape
Minus(a, b) ==
    [ shape |-> a.shape, data |-> [ i \in 1 .. Len(a.data) |-> a.data[i] - b.data[i] ] ]
K_square(t) ==
    [ shape |-> t.shape, data |-> [ i \in 1 .. Len(t.data) |-> t.data[i] * t.data[i] ] ]
\* K.sum(t, axis=axis), axis counted from 0: the axis is summed out
K_sum(t, axis) ==
    LET r     == Len(t.shape)
        outer == Prod(SubSeq(t.shape, 1, axis))
        n     == t.shape[axis + 1]
        inner == Prod(SubSeq(t.shape, axis + 2, r))
        at(o, j, k) == t.data[(o * n + j) * inner + k + 1]
    IN  [ shape |-> SubSeq(t.shape, 1, axis) \o SubSeq(t.shape, axis + 2, r),
          data  |-> [ i \in 1 .. outer * inner |->
                        SumTo([ j \in 1 .. n |->
                                  at((i - 1) \div inner, j - 1, (i - 1) % inner) ], n) ] ]
\* K.reshape(t, [-1, features])
K_reshape(t, features) ==
    [ shape |-> << Len(t.data) \div features, features >>, data |-> t.data ]

\* squared_error, lines 25-28
squared_error_axis0(a, b) == K_sum(K_square(Minus(a, b)), 0)
squared_error(a, b) == K_sum(K_square(Minus(a, b)), 1)

\* reconstruction_loss, lines 31-36
reconstruction_loss(original_images, reconstructed_images) ==
    IF Len(original_images.shape) > 2
    THEN LET features == Prod(Tail(original_images.shape))
         IN  squared_error(K_reshape(original_images, features),
                           K_reshape(reconstructed_images, features))
    ELSE squared_error(original_images, reconstructed_images)

InitLoss ==
    /\ InitTrain
    /\ cls = "DCGAN"
    /\ hyper.image_shape = << 2, 2, 1 >>
    /\ \E s \in LossShapes : p \in Tensors(s) /\ q \in Tensors(s)
    /\ lpc = "input"
    /\ se = << >> /\ rl = << >>

SquaredError ==
    /\ lpc = "input"
    /\ se' = << squared_error(p, q), squared_error(q, p), squared_error(p, p) >>
    /\ lpc' = "squared_error"
    /\ UNCHANGED << trainVars, p, q, rl >>

ReconstructionLoss ==
    /\ lpc = "squared_error"
    /\ rl' = << reconstruction_loss(p, q), reconstruction_loss(p, p) >>
    /\ lpc' = "done"
    /\ UNCHANGED << trainVars, p, q, se >>

NextLoss == SquaredError \/ ReconstructionLoss

SpecLoss == InitLoss /\ [][NextLoss]_vars

\* ================================================================ claims
PhaseOrder ==
    << "sample-noise", "generate-fakes", "assemble-batch", "update-discriminator",
       "sample-noise-again", "update-generator", "report" >>
PhaseNames == [ i \in 1 .. Len(phases) |-> phases[i].phase ]
InCall == pc \notin { "idle", "returned", "failed" }
LossFetched(net, k) ==
    [ fetch |-> "loss." \o net, value |-> "value", call |-> calls, run |-> k ]

\* C1: the steps a call has taken are always the first steps of the order
\* sample-noise, generate-fakes, assemble-batch, update-discriminator,
\* sample-noise-again, update-generator, report, every one of them a step of
\* the current call; the session runs of a call are first the discriminator
\* update and then the generator update; a returned call has taken all seven
\* steps and has run each update exactly once.
C1_PhasesInOrder ==
    /\ Len(phases) <= Len(PhaseOrder)
    /\ PhaseNames = SubSeq(PhaseOrder, 1, Len(phases))
    /\ \A i \in 1 .. Len(phases) : phases[i].call = calls
    /\ \A i \in 1 .. Len(runs) : runs[i].call = calls
    /\ Len(runs) <= 2
    /\ (Len(runs) >= 1 => runs[1].op = "D" /\ runs[1].fetches[1] = "optimizer.D")
    /\ (Len(runs) = 2 => runs[2].op = "G" /\ runs[2].fetches[1] = "optimizer.G")
    /\ (Len(runs) = 2 <=> Len(phases) >= 6)
    /\ (pc = "returned" =>
          /\ PhaseNames = PhaseOrder
          /\ Len(runs) = 2
          /\ weights.D = entry.weights.D + 1
          /\ weights.G = entry.weights.G + 1)
C1_Witness == pc = "returned" /\ completed = 2 /\ calls = 3

\* C2: a model constructed as WGAN has a linear, unbounded final
\* discriminator layer; a model constructed as DCGAN a sigmoid one in [0,1].
C2_FinalLayerByClass ==
    /\ (cls = "WGAN" =>
          /\ graph.D_final = WGAN_define_final_discriminator_layer
          /\ \E z \in Scores : Activation(graph.D_final, z) \notin 0 .. 100)
    /\ (cls = "DCGAN" =>
          \A z \in Scores : Activation(graph.D_final, z) \in 0 .. 100)

\* C3: for a model constructed as WGAN the loss minimized by the
\* discriminator update is the Wasserstein loss with gradient penalty and the
\* one minimized by the generator update is the negative mean score, neither
\* being the binary cross-entropy.
C3_WGANLossesMinimized ==
    cls = "WGAN" =>
        \A i \in 1 .. Len(runs) :
            /\ runs[i].loss # "binary_crossentropy"
            /\ runs[i].loss = IF runs[i].op = "D"
                              THEN WGAN_define_discriminator_loss
                              ELSE WGAN_define_generator_loss

\* C4: a session run of the discriminator update leaves the generator's
\* weights as they were and a session run of the generator update leaves the
\* discriminator's weights as they were; each updates its own network.
C4_UpdateFrame ==
    [][ Len(runs') = Len(runs) + 1 =>
          LET r == runs'[Len(runs')]
          IN  /\ ("optimizer.D" = r.fetches[1] =>
                    weights'.G = weights.G /\ weights'.D = weights.D + 1)
              /\ ("optimizer.G" = r.fetches[1] =>
                    weights'.D = weights.D /\ weights'.G = weights.G + 1) ]_vars
C4_Witness ==
    /\ pc = "report" /\ completed = 1
    /\ weights.D = 2 /\ weights.G = 2
    /\ entry.weights = [ D |-> 1, G |-> 1 ]

\* C5: the label vector fed to the discriminator update of a call on N real
\* images has length 2N, its first N entries are 0 and its last N entries lie
\* in [0.8, 1.0] (tenths: 8..10); it belongs to the current call's run.
C5_SmoothedLabels ==
    \A i \in 1 .. Len(runs) :
        runs[i].fetches[1] = "optimizer.D" =>
            LET labels == runs[i].feed.labels
                N      == real_images.shape[1]
            IN  /\ Len(labels) = 2 * N
                /\ \A j \in 1 .. N : labels[j] = 0
                /\ \A j \in N + 1 .. 2 * N : 8 <= labels[j] /\ labels[j] <= 10
                /\ runs[i].call = calls
C5_Witness ==
    /\ pc = "sample_noise_again" /\ real_images.shape[1] = 2
    /\ runs[1].feed.labels = << 0, 0, 8, 10 >>

\* C6: a returned call returns the mapping with exactly the keys D and G,
\* D being the discriminator loss fetched by the call's discriminator run and
\* G the generator loss fetched by its generator run; with with_summary it
\* returns that mapping paired with the summary fetched by the generator run.
C6_ReturnedLosses ==
    pc = "returned" =>
        /\ Len(ret) = IF with_summary THEN 2 ELSE 1
        /\ DOMAIN ret[1] = { "D", "G" }
        /\ ret[1].D = LossFetched("D", 1)
        /\ ret[1].G = LossFetched("G", 2)
        /\ runs[1].fetches[2] = "loss.D" /\ runs[2].fetches[2] = "loss.G"
        /\ (with_summary =>
              ret[2] = [ fetch |-> "summary", value |-> "value",
                         call |-> calls, run |-> 2 ])
C6_Witness == pc = "returned" /\ completed >= 10 /\ with_summary

\* C7: when the generated and the real images differ in shape beyond the
\* batch dimension the call fails right after generating, before any session
\* run: weights and global_step are those of the call's start, nothing is
\* returned, and the call takes no further step.
ShapeMismatch ==
    /\ fake_images # NoTensor
    /\ Tail(fake_images.shape) # Tail(real_images.shape)
C7_ShapeAssertion ==
    /\ (ShapeMismatch => pc = "failed")
    /\ (pc = "failed" =>
          /\ ShapeMismatch
          /\ weights = entry.weights
          /\ global_step = entry.global_step
          /\ runs = << >> /\ ret = << >> /\ d_loss = << >>
          /\ PhaseNames = << "sample-noise", "generate-fakes" >>
          /\ ~ ENABLED (SampleNoise \/ GenerateFakes \/ AssembleBatch
                          \/ TrainDiscriminator \/ SampleNoiseAgain
                          \/ UpdateGenerator \/ Report))
C7_Witness ==
    /\ pc = "failed" /\ completed = 2 /\ calls = 3
    /\ weights = [ D |-> 2, G |-> 2 ] /\ global_step = 2

\* C8 as stated: for inputs of any rank squared_error returns the rank-1
\* vector of per-example sums over all non-batch axes; it is symmetric and
\* zero on equal inputs.
PerExample(a, b) ==
    LET F == Prod(Tail(a.shape))
        d(i, j) == a.data[(i - 1) * F + j] - b.data[(i - 1) * F + j]
    IN  [ shape |-> << a.shape[1] >>,
          data  |-> [ i \in 1 .. a.shape[1] |->
                        SumTo([ j \in 1 .. F |-> d(i, j) * d(i, j) ], F) ] ]
IsZero(t) == \A i \in 1 .. Len(t.data) : t.data[i] = 0
C8_PerExampleAnyRank ==
    lpc \in { "squared_error", "done" } =>
        /\ se[1] = PerExample(p, q)
        /\ se[1] = se[2]
        /\ se[3] = PerExample(p, p) /\ IsZero(se[3])

\* C8 amended: squared_error sums over axis 1 alone.  On 2-D inputs the
\* result is the rank-1 vector of per-example sums; on 4-D [b, h, w, c]
\* inputs it has shape [b, w, c].  reconstruction_loss returns the rank-1
\* vector of per-example sums over all non-batch axes for either rank.  For
\* either rank squared_error is symmetric and zero on equal inputs.
C8_SquaredErrorAxis1 ==
    /\ (lpc \in { "squared_error", "done" } =>
          /\ (Len(p.shape) = 2 => se[1] = PerExample(p, q))
          /\ (Len(p.shape) = 4 =>
                se[1].shape = << p.shape[1], p.shape[3], p.shape[4] >>)
          /\ Len(se[1].data) = Prod(se[1].shape)
          /\ SumTo(se[1].data, Len(se[1].data))
               = SumTo(PerExample(p, q).data, p.shape[1])
          /\ se[1] = se[2]
          /\ se[3].shape = se[1].shape /\ IsZero(se[3]))
    /\ (lpc = "done" =>
          /\ rl[1] = PerExample(p, q)
          /\ rl[2] = PerExample(p, p) /\ IsZero(rl[2]))
C8_Witness ==
    /\ lpc = "done"
    /\ p.shape = << 2, 2, 1, 1 >>
    /\ se[1].shape = << 2, 1, 1 >>
    /\ rl[1].shape = << 2 >> /\ rl[1].data = << 8, 4 >>

\* C9: the noise fed to the generator update is the call's second draw, made
\* after the discriminator update's run; the fakes fed to the discriminator
\* update are the ones generated from the first draw; the generator update
\* is fed neither the first draw nor any images.
C9_FreshNoise ==
    /\ (Len(runs) >= 1 =>
          /\ runs[1].feed.images.fake = fake_images
          /\ fake_images.z = noise.draw
          /\ noise.draw = 1 /\ noise.after = 0)
    /\ (Len(runs) = 2 =>
          /\ DOMAIN runs[2].feed = { "noise", "learning_phase" }
          /\ runs[2].feed.noise = g_noise
          /\ g_noise.draw # noise.draw /\ g_noise.draw # fake_images.z
          /\ g_noise.draw = 2 /\ g_noise.after = 1
          /\ draws = 2)
C9_Witness ==
    /\ pc = "report" /\ Len(runs) = 2
    /\ runs[2].feed.noise.draw = 2 /\ runs[1].feed.images.fake.z = 1

\* C10: global_step is advanced by the generator update alone: it equals the
\* number of returned calls (plus one between the generator update and the
\* return), and from the call's start until the generator update, the
\* discriminator update included, it is what it was when the call started.
C10_GlobalStep ==
    /\ global_step = completed + (IF pc = "report" THEN 1 ELSE 0)
    /\ (InCall /\ Len(runs) <= 1 => global_step = entry.global_step)
    /\ (Len(runs) = 2 => global_step = entry.global_step + 1)
    /\ (pc \in { "idle", "returned", "failed" } => global_step = completed)
C10_Witness ==
    /\ pc = "train_generator" /\ Len(runs) = 1
    /\ completed = 3 /\ global_step = 3 /\ weights.D = 4
====
